---- MODULE Spec2Model ----
(***************************************************************************)
(* MuntahaCache (src/src/Index.ts): a cache facade over localStorage,      *)
(* sessionStorage and the Cache Storage API, with time-to-live expiration  *)
(* and an LRU eviction pass for the Cache Storage backend.                 *)
(*                                                                         *)
(* Modelling conventions.                                                  *)
(*  - Every async method is cut at its await points.  A process p is at    *)
(*    pc[p] = the host call it is waiting for; the action for that pc      *)
(*    performs the host call and runs the continuation up to the next      *)
(*    await (or to the return / throw of the method).                      *)
(*  - Keys and URLs are opaque strings in the code; only equality is used, *)
(*    so both are drawn from the integers.                                 *)
(*  - Stored bodies are texts: sequences of string tokens.  JSONstringify  *)
(*    produces the JSON text of an envelope, JSONparse reads it back.      *)
(*  - A JavaScript value is a record [t, n, s]: its type tag, its number   *)
(*    (for a number, or the property value of an object) and its string    *)
(*    (for a string, or the property name of an object).                   *)
(***************************************************************************)
EXTENDS Integers, Sequences, FiniteSets, TLC

\* ---------------------------------------------------------------- constants
DEFAULT_TTL == 300000

MAX_CACHE_SIZE == 50

\* ------------------------------------------------------------------- bounds
\* the clock advances at most MaxTime milliseconds after the module is loaded
MaxTime == 2

\* number of clearAll calls modelled (each one orphans the named cache)
MaxClears == 1

\* number of writes of the sequential filling scenario beyond MAX_CACHE_SIZE
ExtraWrites == 2

\* ------------------------------------------------------------ JavaScript values
JsNull == [t |-> "null", n |-> 0, s |-> ""]

JsNum(k) == [t |-> "number", n |-> k, s |-> ""]

JsStr(str) == [t |-> "string", n |-> 0, s |-> str]

\* the object {str: k}
JsObj(str, k) == [t |-> "object", n |-> k, s |-> str]

JsBlob(content) == [t |-> "blob", n |-> 0, s |-> content]

JsUndefined == [t |-> "undefined", n |-> 0, s |-> ""]

JsError(name) == [t |-> "error", n |-> 0, s |-> name]

\* the strings that occur as string values or property names
Strings == {"n", "a"}

\* the last value of the clock in any scenario
LastTime == MAX_CACHE_SIZE + ExtraWrites + MaxTime + 1

\* the numbers that occur in stored texts: payload numbers, timestamps,
\* expirations with a small ttl and expirations with the default ttl
Numbers == (0 .. (LastTime + 2)) \cup {DEFAULT_TTL + i : i \in 0 .. LastTime}

Quote(str) == "\"" \o str \o "\""

\* JSON.stringify of a value (Index.ts:105, 118, 135)
StringifyValue(v) ==
  CASE v.t = "null" -> <<"null">>
    [] v.t = "number" -> <<ToString(v.n)>>
    [] v.t = "string" -> <<Quote(v.s)>>
    [] v.t = "object" -> <<"{", Quote(v.s), ":", ToString(v.n), "}">>

\* JSON.stringify({ value, expiration, accessedAt })
JSONstringify(value, expiration, accessedAt) ==
  <<"{", Quote("value"), ":">> \o StringifyValue(value) \o
  <<",", Quote("expiration"), ":", ToString(expiration),
    ",", Quote("accessedAt"), ":", ToString(accessedAt), "}">>

\* the decimal texts of the numbers, and the number each one denotes
NumberTokens == {ToString(k) : k \in Numbers}

TokenValue == [tok \in NumberTokens |-> CHOOSE k \in Numbers : ToString(k) = tok]

IsNumberToken(tok) == tok \in NumberTokens

NumberOf(tok) == TokenValue[tok]

IsStringToken(tok) == \E str \in Strings : Quote(str) = tok

StringOf(tok) == CHOOSE str \in Strings : Quote(str) = tok

NoParse == [ok |-> FALSE, val |-> JsNull, next |-> 0]

\* the JSON value starting at token i of text
ParseValue(text, i) ==
  IF i > Len(text) THEN NoParse
  ELSE IF text[i] = "null" THEN [ok |-> TRUE, val |-> JsNull, next |-> i + 1]
  ELSE IF IsNumberToken(text[i])
    THEN [ok |-> TRUE, val |-> JsNum(NumberOf(text[i])), next |-> i + 1]
  ELSE IF IsStringToken(text[i])
    THEN [ok |-> TRUE, val |-> JsStr(StringOf(text[i])), next |-> i + 1]
  ELSE IF /\ text[i] = "{"
          /\ i + 4 <= Len(text)
          /\ IsStringToken(text[i + 1])
          /\ text[i + 2] = ":"
          /\ IsNumberToken(text[i + 3])
          /\ text[i + 4] = "}"
    THEN [ok |-> TRUE,
          val |-> JsObj(StringOf(text[i + 1]), NumberOf(text[i + 3])),
          next |-> i + 5]
  ELSE NoParse

SyntaxError == [ok |-> FALSE, value |-> JsNull, expiration |-> 0, accessedAt |-> 0]

\* JSON.parse(item) as CachedEntry<T> / response.json() as CachedEntry<T>:
\* ok = FALSE is the SyntaxError raised for a body that is not JSON text.
\* The stored texts are envelope texts or texts that are not JSON at all.
JSONparse(text) ==
  IF Len(text) < 3 \/ text[1] # "{" \/ text[2] # Quote("value") \/ text[3] # ":"
  THEN SyntaxError
  ELSE LET pv == ParseValue(text, 4)
           j == pv.next
       IN IF /\ pv.ok
             /\ Len(text) = j + 8
             /\ text[j] = ","
             /\ text[j + 1] = Quote("expiration")
             /\ text[j + 2] = ":"
             /\ IsNumberToken(text[j + 3])
             /\ text[j + 4] = ","
             /\ text[j + 5] = Quote("accessedAt")
             /\ text[j + 6] = ":"
             /\ IsNumberToken(text[j + 7])
             /\ text[j + 8] = "}"
          THEN [ok |-> TRUE, value |-> pv.val,
                expiration |-> NumberOf(text[j + 3]),
                accessedAt |-> NumberOf(text[j + 7])]
          ELSE SyntaxError

\* ------------------------------------------------------- host storage objects
\* Storage.getItem returns null for a missing key; an item is never the empty text
NoItem == <<>>

\* Storage.getItem(key)
GetItem(storage, key) == IF key \in DOMAIN storage THEN storage[key] ELSE NoItem

\* Storage.setItem(key, text)
SetItem(storage, key, text) ==
  [k \in (DOMAIN storage) \cup {key} |-> IF k = key THEN text ELSE storage[k]]

\* Storage.removeItem(key)
RemoveItem(storage, key) == [k \in (DOMAIN storage) \ {key} |-> storage[k]]

\* Storage.clear()
EmptyStorage == [k \in {} |-> NoItem]

\* a Cache is the list of its request/response pairs in insertion order;
\* an entry is [url, body, expires] with expires = NoHeader when the
\* response carries no Expires header
NoHeader == -1

NoResponse == [present |-> FALSE, body |-> <<>>, bodyUsed |-> FALSE]

\* cache.match(url): the response stored under url, or undefined
CacheMatch(cache, url) ==
  IF \E i \in 1 .. Len(cache) : cache[i].url = url
  THEN LET i == CHOOSE j \in 1 .. Len(cache) : cache[j].url = url
       IN [present |-> TRUE, body |-> cache[i].body, bodyUsed |-> FALSE]
  ELSE NoResponse

\* a delete that keeps the entry under url and drops the others
CacheDelete_m(cache, url) == SelectSeq(cache, LAMBDA e : e.url = url)

\* cache.delete(url): no effect when there is no entry under url
CacheDelete(cache, url) == SelectSeq(cache, LAMBDA e : e.url # url)

\* a put that keeps the entry already stored under url
CachePut_m(cache, url, body, expires) ==
  IF \E i \in 1 .. Len(cache) : cache[i].url = url THEN cache
  ELSE Append(cache, [url |-> url, body |-> body, expires |-> expires])

\* cache.put(url, response): replaces the entry under url; the new pair is
\* appended to the list
CachePut(cache, url, body, expires) ==
  Append(CacheDelete(cache, url), [url |-> url, body |-> body, expires |-> expires])

\* cache.keys(): the requests in insertion order
CacheKeys(cache) == [i \in 1 .. Len(cache) |-> cache[i].url]

\* the body of the blob fetched from mediaUrl: binary data, not JSON text
BlobBody(mediaUrl) == <<"PNG", mediaUrl>>

\* new Date(ms).toUTCString() keeps whole seconds only
ToUTCString(ms) == (ms \div 1000) * 1000

\* response.json(): consumes the body and parses it
ResponseJson(response) == JSONparse(response.body)

\* response.blob(): TypeError when the body was consumed before
ResponseBlob(response) ==
  IF response.bodyUsed THEN [ok |-> FALSE, val |-> JsError("TypeError")]
  ELSE [ok |-> TRUE, val |-> JsBlob(response.body[2])]

\* the comparison inverted
Expired_m(time, expiration) == time < expiration

\* Date.now() > data.expiration (Index.ts:32, 49, 67, 260)
Expired(time, expiration) == time > expiration

\* options.ttl ?? DEFAULT_TTL (Index.ts:157); NoTtl is an options object without ttl
NoTtl == -1

TtlOrDefault(ttl) == IF ttl = NoTtl THEN DEFAULT_TTL ELSE ttl

\* entry of the list built by applyLRU (Index.ts:202)
Detail(url, accessedAt) == [url |-> url, accessedAt |-> accessedAt]

\* entryDetails.sort((a, b) => a.accessedAt - b.accessedAt): ascending, stable
RECURSIVE SortByAccessedAt(_)
SortByAccessedAt(details) ==
  IF details = <<>> THEN <<>>
  ELSE LET d == details[Len(details)]
           rest == SortByAccessedAt(SubSeq(details, 1, Len(details) - 1))
           k == Cardinality({i \in 1 .. Len(rest) : rest[i].accessedAt <= d.accessedAt})
       IN SubSeq(rest, 1, k) \o <<d>> \o SubSeq(rest, k + 1, Len(rest))

\* ---------------------------------------------------------------------- state
VARIABLES
  now,             \* Date.now()
  localStorage,    \* window.localStorage: key -> text
  sessionStorage,  \* window.sessionStorage: key -> text
  caches,          \* the Cache objects: generation -> list of entries
  named,           \* the generation CACHE_NAME maps to in CacheStorage
  accessCount,     \* SetupCache.accessCount (the urls it maps)
  pc,              \* per caller: the await its call is suspended at, or "idle"
  args,            \* per caller: the arguments of its call
  loc,             \* per caller: the local variables of its call
  ret,             \* per caller: the outcome of its call
  everSet          \* history: per storage kind, the identifiers written so far

vars == <<now, localStorage, sessionStorage, caches, named, accessCount,
          pc, args, loc, ret, everSet>>

Kinds == {"cache", "local", "session"}

\* options.storageType / storageType left out
Unspecified == "unspecified"

\* at is the time of the call, after the callers whose calls had completed by then
NoArgs == [op |-> "none", key |-> 0, url |-> 0, value |-> JsNull, ttl |-> NoTtl,
           kind |-> Unspecified, mediaUrl |-> "", at |-> 0, after |-> {}]

NoLoc == [cache |-> 0, expiration |-> 0, body |-> <<>>, response |-> NoResponse,
          cacheEntries |-> <<>>, entryDetails |-> <<>>, idx |-> 0, oldestEntry |-> 0]

NoRet == [status |-> "none", val |-> JsUndefined, line |-> 0]

Generations == 0 .. MaxClears

\* the state when the module is loaded by the callers procs at time time0,
\* with the stores as earlier page loads left them
InitWith(procs, time0, local, session, cache) ==
  /\ now = time0
  /\ localStorage = local
  /\ sessionStorage = session
  /\ caches = [g \in Generations |-> IF g = 0 THEN cache ELSE <<>>]
  /\ named = 0
  /\ accessCount = {}
  /\ pc = [p \in procs |-> "idle"]
  /\ args = [p \in procs |-> NoArgs]
  /\ loc = [p \in procs |-> NoLoc]
  /\ ret = [p \in procs |-> NoRet]
  /\ everSet = [k \in Kinds |->
                  CASE k = "local" -> DOMAIN local
                    [] k = "session" -> DOMAIN session
                    [] k = "cache" -> {cache[i].url : i \in 1 .. Len(cache)}]

\* the callers whose calls have completed
Completed == {q \in DOMAIN pc : pc[q] = "idle" /\ args[q] # NoArgs}

\* the arguments a of a call made now
Stamped(a) == [a EXCEPT !.at = now, !.after = Completed]

\* p calls a method with the arguments a and is suspended at its first await;
\* every caller makes one call
Call(p, a, label, newLoc) ==
  /\ pc[p] = "idle"
  /\ args[p] = NoArgs
  /\ args' = [args EXCEPT ![p] = Stamped(a)]
  /\ pc' = [pc EXCEPT ![p] = label]
  /\ loc' = [loc EXCEPT ![p] = newLoc]
  /\ ret' = [ret EXCEPT ![p] = NoRet]

\* p calls a method with the arguments a that completes without suspending
CallSync(p, a, outcome) ==
  /\ pc[p] = "idle"
  /\ args[p] = NoArgs
  /\ args' = [args EXCEPT ![p] = Stamped(a)]
  /\ ret' = [ret EXCEPT ![p] = outcome]
  /\ UNCHANGED <<pc, loc>>

\* the call of p is suspended at the await named label
Goto(p, label, newLoc) ==
  /\ pc' = [pc EXCEPT ![p] = label]
  /\ loc' = [loc EXCEPT ![p] = newLoc]
  /\ UNCHANGED <<args, ret>>

\* the call of p returns val at the given source line
Return(p, val, line) ==
  /\ pc' = [pc EXCEPT ![p] = "idle"]
  /\ loc' = [loc EXCEPT ![p] = NoLoc]
  /\ ret' = [ret EXCEPT ![p] = [status |-> "ok", val |-> val, line |-> line]]
  /\ UNCHANGED args

\* the call of p fails with the error thrown at the given source line
Throw(p, name, line) ==
  /\ pc' = [pc EXCEPT ![p] = "idle"]
  /\ loc' = [loc EXCEPT ![p] = NoLoc]
  /\ ret' = [ret EXCEPT ![p] = [status |-> "error", val |-> JsError(name), line |-> line]]
  /\ UNCHANGED args

\* Date.now() advances, up to time last
Tick(last) ==
  /\ now < last
  /\ now' = now + 1
  /\ UNCHANGED <<localStorage, sessionStorage, caches, named, accessCount,
                 pc, args, loc, ret, everSet>>

\* ------------------------------------------------------------------ get / set
Ok(val, line) == [status |-> "ok", val |-> val, line |-> line]

Failed(name, line) == [status |-> "error", val |-> JsError(name), line |-> line]

\* a read that renews the accessedAt of the entry it returns
StorageGet_m(storage, key, time, first) ==
  LET item == GetItem(storage, key)
      data == JSONparse(item)
  IN IF item = NoItem
       THEN [storage |-> storage, outcome |-> Ok(JsNull, first + 1)]
     ELSE IF ~data.ok
       THEN [storage |-> storage, outcome |-> Failed("SyntaxError", first + 3)]
     ELSE IF Expired(time, data.expiration)
       THEN [storage |-> RemoveItem(storage, key), outcome |-> Ok(JsNull, first + 6)]
     ELSE [storage |-> SetItem(storage, key,
                               JSONstringify(data.value, data.expiration, time)),
           outcome |-> Ok(data.value, first + 8)]

\* getLocal / getSession (Index.ts:27-37, 44-54) on a Storage object at
\* time `time`: the storage afterwards and the outcome.  first is the line of
\* the method's first statement (28 for getLocal, 45 for getSession).
StorageGet(storage, key, time, first) ==
  LET item == GetItem(storage, key)
      data == JSONparse(item)
  IN IF item = NoItem
       THEN [storage |-> storage, outcome |-> Ok(JsNull, first + 1)]
     ELSE IF ~data.ok
       THEN [storage |-> storage, outcome |-> Failed("SyntaxError", first + 3)]
     ELSE IF Expired(time, data.expiration)
       THEN [storage |-> RemoveItem(storage, key), outcome |-> Ok(JsNull, first + 6)]
     ELSE [storage |-> storage, outcome |-> Ok(data.value, first + 8)]

\* setLocal / setSession (Index.ts:102-107, 115-120)
StorageSet(storage, key, value, expiration, time) ==
  SetItem(storage, key, JSONstringify(value, expiration, time))

\* case "session" falling into getLocal
GetKind_m(kind) == IF kind \in {"local", "session"} THEN "local" ELSE "cache"

\* the storage type a call of get uses (Index.ts:84, 86-93)
GetKind(kind) == IF kind \in {"local", "session"} THEN kind ELSE "cache"

\* case "local" falling into setSession
SetKind_m(kind) == IF kind \in {"local", "session"} THEN "session" ELSE "cache"

\* the storage type a call of set uses (Index.ts:160-169)
SetKind(kind) == IF kind \in {"local", "session"} THEN kind ELSE "cache"

GetArgs(key, url, kind) ==
  [NoArgs EXCEPT !.op = "get", !.key = key, !.url = url, !.kind = kind]

\* get(key, url, storageType) up to its first await (Index.ts:81-94)
GetCall(p, key, url, kind) ==
  CASE GetKind(kind) = "local" ->
         LET r == StorageGet(localStorage, key, now, 28)
         IN /\ CallSync(p, GetArgs(key, url, kind), r.outcome)
            /\ localStorage' = r.storage
            /\ UNCHANGED <<now, sessionStorage, caches, named, accessCount, everSet>>
    [] GetKind(kind) = "session" ->
         LET r == StorageGet(sessionStorage, key, now, 45)
         IN /\ CallSync(p, GetArgs(key, url, kind), r.outcome)
            /\ sessionStorage' = r.storage
            /\ UNCHANGED <<now, localStorage, caches, named, accessCount, everSet>>
    [] GetKind(kind) = "cache" ->
         /\ Call(p, GetArgs(key, url, kind), "getCache_open", NoLoc)
         /\ UNCHANGED <<now, localStorage, sessionStorage, caches, named,
                        accessCount, everSet>>

\* getCache: caches.open resolves, cache.match is issued (Index.ts:62-63)
GetCacheOpen(p) ==
  /\ pc[p] = "getCache_open"
  /\ Goto(p, "getCache_match", [loc[p] EXCEPT !.cache = named])
  /\ UNCHANGED <<now, localStorage, sessionStorage, caches, named, accessCount, everSet>>

\* getCache: cache.match resolves (Index.ts:63-66)
GetCacheMatch(p) ==
  /\ pc[p] = "getCache_match"
  /\ LET cachedResponse == CacheMatch(caches[loc[p].cache], args[p].url)
     IN IF ~cachedResponse.present
        THEN Return(p, JsNull, 64)
        ELSE Goto(p, "getCache_json", [loc[p] EXCEPT !.response = cachedResponse])
  /\ UNCHANGED <<now, localStorage, sessionStorage, caches, named, accessCount, everSet>>

\* a getCache that deletes an entry it cannot parse and returns null
GetCacheJson_m(p) ==
  /\ pc[p] = "getCache_json"
  /\ LET data == ResponseJson(loc[p].response)
     IN IF ~data.ok \/ Expired(now, data.expiration)
          THEN Goto(p, "getCache_delete",
                    [loc[p] EXCEPT !.response.bodyUsed = TRUE])
        ELSE Return(p, data.value, 71)
  /\ UNCHANGED <<now, localStorage, sessionStorage, caches, named, accessCount, everSet>>

\* getCache: cachedResponse.json() resolves (Index.ts:66-71)
GetCacheJson(p) ==
  /\ pc[p] = "getCache_json"
  /\ LET data == ResponseJson(loc[p].response)
     IN IF ~data.ok THEN Throw(p, "SyntaxError", 66)
        ELSE IF Expired(now, data.expiration)
          THEN Goto(p, "getCache_delete",
                    [loc[p] EXCEPT !.response.bodyUsed = TRUE])
        ELSE Return(p, data.value, 71)
  /\ UNCHANGED <<now, localStorage, sessionStorage, caches, named, accessCount, everSet>>

\* getCache: cache.delete resolves (Index.ts:68-69)
GetCacheDelete(p) ==
  /\ pc[p] = "getCache_delete"
  /\ caches' = [caches EXCEPT ![loc[p].cache] = CacheDelete(@, args[p].url)]
  /\ Return(p, JsNull, 69)
  /\ UNCHANGED <<now, localStorage, sessionStorage, named, accessCount, everSet>>

SetArgs(key, url, value, ttl, kind) ==
  [NoArgs EXCEPT !.op = "set", !.key = key, !.url = url, !.value = value,
                 !.ttl = ttl, !.kind = kind]

\* set(key, url, value, options) up to its first await (Index.ts:151-170)
SetCall(p, key, url, value, ttl, kind) ==
  LET expiration == now + TtlOrDefault(ttl)
  IN CASE SetKind(kind) = "local" ->
            /\ CallSync(p, SetArgs(key, url, value, ttl, kind), Ok(JsUndefined, 170))
            /\ localStorage' = StorageSet(localStorage, key, value, expiration, now)
            /\ everSet' = [everSet EXCEPT !["local"] = @ \cup {key}]
            /\ UNCHANGED <<now, sessionStorage, caches, named, accessCount>>
       [] SetKind(kind) = "session" ->
            /\ CallSync(p, SetArgs(key, url, value, ttl, kind), Ok(JsUndefined, 170))
            /\ sessionStorage' = StorageSet(sessionStorage, key, value, expiration, now)
            /\ everSet' = [everSet EXCEPT !["session"] = @ \cup {key}]
            /\ UNCHANGED <<now, localStorage, caches, named, accessCount>>
       [] SetKind(kind) = "cache" ->
            /\ Call(p, SetArgs(key, url, value, ttl, kind), "setCache_open",
                    [NoLoc EXCEPT !.expiration = expiration])
            /\ UNCHANGED <<now, localStorage, sessionStorage, caches, named,
                           accessCount, everSet>>

\* setCache: caches.open resolves, the response is built and cache.put is
\* issued (Index.ts:133-137)
SetCacheOpen(p) ==
  /\ pc[p] = "setCache_open"
  /\ Goto(p, "setCache_put",
          [loc[p] EXCEPT !.cache = named,
                         !.body = JSONstringify(args[p].value, loc[p].expiration, now)])
  /\ UNCHANGED <<now, localStorage, sessionStorage, caches, named, accessCount, everSet>>

\* setCache: cache.put resolves, cache.keys is issued (Index.ts:137-139)
SetCachePut(p) ==
  /\ pc[p] = "setCache_put"
  /\ caches' = [caches EXCEPT ![loc[p].cache] =
                   CachePut(@, args[p].url, loc[p].body, NoHeader)]
  /\ everSet' = [everSet EXCEPT !["cache"] = @ \cup {args[p].url}]
  /\ Goto(p, "setCache_keys", loc[p])
  /\ UNCHANGED <<now, localStorage, sessionStorage, named, accessCount>>

\* the comparison with >= in place of >
OverLimit_m(cache) == Len(cache) >= MAX_CACHE_SIZE

\* (await cache.keys()).length > MAX_CACHE_SIZE (Index.ts:139, 210)
OverLimit(cache) == Len(cache) > MAX_CACHE_SIZE

\* a setCache that calls applyLRU after every write
SetCacheKeys_m(p) ==
  /\ pc[p] = "setCache_keys"
  /\ Goto(p, "applyLRU_keys", loc[p])
  /\ UNCHANGED <<now, localStorage, sessionStorage, caches, named, accessCount, everSet>>

\* setCache: cache.keys resolves; applyLRU is called when the store is over
\* the limit (Index.ts:139-142)
SetCacheKeys(p) ==
  /\ pc[p] = "setCache_keys"
  /\ IF OverLimit(caches[loc[p].cache])
     THEN Goto(p, "applyLRU_keys", loc[p])
     ELSE Return(p, JsUndefined, 170)
  /\ UNCHANGED <<now, localStorage, sessionStorage, caches, named, accessCount, everSet>>

\* applyLRU: cache.keys resolves, a cache.match is issued for every key
\* (Index.ts:197-200)
ApplyLRUKeys(p) ==
  /\ pc[p] = "applyLRU_keys"
  /\ LET cacheEntries == CacheKeys(caches[loc[p].cache])
     IN IF cacheEntries = <<>>
        THEN Goto(p, "applyLRU_loop", loc[p])
        ELSE Goto(p, "applyLRU_match",
                  [loc[p] EXCEPT !.cacheEntries = cacheEntries, !.idx = 1])
  /\ UNCHANGED <<now, localStorage, sessionStorage, caches, named, accessCount, everSet>>

\* applyLRU: the cache.match and response.json of the next key resolve; after
\* the last one Promise.all resolves, the list is sorted and cache.keys is
\* issued (Index.ts:198-210)
ApplyLRUMatch(p) ==
  /\ pc[p] = "applyLRU_match"
  /\ LET request == loc[p].cacheEntries[loc[p].idx]
         response == CacheMatch(caches[loc[p].cache], request)
         data == ResponseJson(response)
         entryDetails == Append(loc[p].entryDetails, Detail(request, data.accessedAt))
     IN IF ~response.present THEN Throw(p, "TypeError", 202)
        ELSE IF ~data.ok THEN Throw(p, "SyntaxError", 201)
        ELSE IF loc[p].idx < Len(loc[p].cacheEntries)
          THEN Goto(p, "applyLRU_match",
                    [loc[p] EXCEPT !.entryDetails = entryDetails, !.idx = @ + 1])
        ELSE Goto(p, "applyLRU_loop",
                  [loc[p] EXCEPT !.entryDetails = SortByAccessedAt(entryDetails),
                                 !.cacheEntries = <<>>, !.idx = 0])
  /\ UNCHANGED <<now, localStorage, sessionStorage, caches, named, accessCount, everSet>>

\* applyLRU: the cache.keys of the loop condition resolves (Index.ts:210-213)
ApplyLRULoop(p) ==
  /\ pc[p] = "applyLRU_loop"
  /\ IF OverLimit(caches[loc[p].cache])
     THEN IF loc[p].entryDetails # <<>>
          THEN Goto(p, "applyLRU_delete",
                    [loc[p] EXCEPT !.oldestEntry = Head(loc[p].entryDetails).url,
                                   !.entryDetails = Tail(@)])
          ELSE Goto(p, "applyLRU_loop", loc[p])
     ELSE Return(p, JsUndefined, 170)
  /\ UNCHANGED <<now, localStorage, sessionStorage, caches, named, accessCount, everSet>>

\* applyLRU: cache.delete(oldestEntry.url) resolves, cache.keys is issued
\* again (Index.ts:212, 210)
ApplyLRUDelete(p) ==
  /\ pc[p] = "applyLRU_delete"
  /\ caches' = [caches EXCEPT ![loc[p].cache] = CacheDelete(@, loc[p].oldestEntry)]
  /\ Goto(p, "applyLRU_loop", [loc[p] EXCEPT !.oldestEntry = 0])
  /\ UNCHANGED <<now, localStorage, sessionStorage, named, accessCount, everSet>>

\* ------------------------------------------------------------ delete / clearAll
\* delete(url) up to its first await (Index.ts:176-177)
DeleteCall(p, url) ==
  /\ Call(p, [NoArgs EXCEPT !.op = "delete", !.url = url], "delete_open", NoLoc)
  /\ UNCHANGED <<now, localStorage, sessionStorage, caches, named, accessCount, everSet>>

\* delete: caches.open resolves, cache.delete is issued (Index.ts:177-178)
DeleteOpen(p) ==
  /\ pc[p] = "delete_open"
  /\ Goto(p, "delete_delete", [loc[p] EXCEPT !.cache = named])
  /\ UNCHANGED <<now, localStorage, sessionStorage, caches, named, accessCount, everSet>>

\* delete: cache.delete resolves, the tracking count is dropped (Index.ts:178-180)
DeleteDelete(p) ==
  /\ pc[p] = "delete_delete"
  /\ caches' = [caches EXCEPT ![loc[p].cache] = CacheDelete(@, args[p].url)]
  /\ accessCount' = accessCount \ {args[p].url}
  /\ Return(p, JsUndefined, 180)
  /\ UNCHANGED <<now, localStorage, sessionStorage, named, everSet>>

\* clearAll() up to its await (Index.ts:185-186); every caches.delete makes
\* CACHE_NAME map to a fresh Cache, so the number of calls is bounded
ClearAllCall(p) ==
  /\ named + Cardinality({q \in DOMAIN pc : pc[q] = "clearAll_delete"}) < MaxClears
  /\ Call(p, [NoArgs EXCEPT !.op = "clearAll"], "clearAll_delete", NoLoc)
  /\ UNCHANGED <<now, localStorage, sessionStorage, caches, named, accessCount, everSet>>

\* clearAll without sessionStorage.clear()
ClearAllDelete_m(p) ==
  /\ pc[p] = "clearAll_delete"
  /\ named' = named + 1
  /\ accessCount' = {}
  /\ localStorage' = EmptyStorage
  /\ Return(p, JsUndefined, 190)
  /\ UNCHANGED <<now, sessionStorage, caches, everSet>>

\* clearAll: caches.delete resolves; the Cache object stays usable for the
\* calls that hold it, CACHE_NAME opens a new empty Cache from now on; then
\* the map and both storages are cleared (Index.ts:186-190)
ClearAllDelete(p) ==
  /\ pc[p] = "clearAll_delete"
  /\ named' = named + 1
  /\ accessCount' = {}
  /\ localStorage' = EmptyStorage
  /\ sessionStorage' = EmptyStorage
  /\ Return(p, JsUndefined, 190)
  /\ UNCHANGED <<now, caches, everSet>>

\* clearAll: caches.delete rejects; the rejection leaves the async function at
\* its await, before the statements that follow it (Index.ts:186)
ClearAllDeleteRejects(p) ==
  /\ pc[p] = "clearAll_delete"
  /\ Throw(p, "UnknownError", 186)
  /\ UNCHANGED <<now, localStorage, sessionStorage, caches, named, accessCount, everSet>>

\* ----------------------------------------------------------------------- media
\* setMedia(url, imageUrl, ttl) up to the fetch of convertImageToBlob
\* (Index.ts:236-241, 221-222)
SetMediaCall(p, url, imageUrl, ttl) ==
  /\ Call(p, [NoArgs EXCEPT !.op = "setMedia", !.url = url, !.mediaUrl = imageUrl,
                            !.ttl = ttl],
          "convertImageToBlob_fetch", NoLoc)
  /\ UNCHANGED <<now, localStorage, sessionStorage, caches, named, accessCount, everSet>>

\* convertImageToBlob: fetch resolves with response.ok = ok; the blob is read
\* and caches.open is issued (Index.ts:222-227, 241-242)
ConvertImageToBlobFetch(p, ok) ==
  /\ pc[p] = "convertImageToBlob_fetch"
  /\ IF ~ok THEN Throw(p, "Error", 224)
     ELSE Goto(p, "setMedia_open", [loc[p] EXCEPT !.body = BlobBody(args[p].mediaUrl)])
  /\ UNCHANGED <<now, localStorage, sessionStorage, caches, named, accessCount, everSet>>

\* setMedia: caches.open resolves, the Expires header is set and cache.put
\* is issued (Index.ts:242-246); ttl = DEFAULT_TTL when left out
SetMediaOpen(p) ==
  /\ pc[p] = "setMedia_open"
  /\ Goto(p, "setMedia_put",
          [loc[p] EXCEPT !.cache = named,
                         !.expiration = ToUTCString(now + TtlOrDefault(args[p].ttl))])
  /\ UNCHANGED <<now, localStorage, sessionStorage, caches, named, accessCount, everSet>>

\* setMedia: cache.put resolves (Index.ts:246-247)
SetMediaPut(p) ==
  /\ pc[p] = "setMedia_put"
  /\ caches' = [caches EXCEPT ![loc[p].cache] =
                   CachePut(@, args[p].url, loc[p].body, loc[p].expiration)]
  /\ everSet' = [everSet EXCEPT !["cache"] = @ \cup {args[p].url}]
  /\ Return(p, JsUndefined, 247)
  /\ UNCHANGED <<now, localStorage, sessionStorage, named, accessCount>>

\* getMedia(url) up to its first await (Index.ts:254-255)
GetMediaCall(p, url) ==
  /\ Call(p, [NoArgs EXCEPT !.op = "getMedia", !.url = url], "getMedia_open", NoLoc)
  /\ UNCHANGED <<now, localStorage, sessionStorage, caches, named, accessCount, everSet>>

\* getMedia: caches.open resolves, cache.match is issued (Index.ts:255-256)
GetMediaOpen(p) ==
  /\ pc[p] = "getMedia_open"
  /\ Goto(p, "getMedia_match", [loc[p] EXCEPT !.cache = named])
  /\ UNCHANGED <<now, localStorage, sessionStorage, caches, named, accessCount, everSet>>

\* getMedia: cache.match resolves (Index.ts:256-259)
GetMediaMatch(p) ==
  /\ pc[p] = "getMedia_match"
  /\ LET cachedResponse == CacheMatch(caches[loc[p].cache], args[p].url)
     IN IF ~cachedResponse.present
        THEN Return(p, JsNull, 257)
        ELSE Goto(p, "getMedia_json", [loc[p] EXCEPT !.response = cachedResponse])
  /\ UNCHANGED <<now, localStorage, sessionStorage, caches, named, accessCount, everSet>>

\* getMedia: cachedResponse.json() resolves; an unexpired entry is returned
\* through cachedResponse.blob() (Index.ts:259-264)
GetMediaJson(p) ==
  /\ pc[p] = "getMedia_json"
  /\ LET data == ResponseJson(loc[p].response)
         consumed == [loc[p].response EXCEPT !.bodyUsed = TRUE]
         blob == ResponseBlob(consumed)
     IN IF ~data.ok THEN Throw(p, "SyntaxError", 259)
        ELSE IF Expired(now, data.expiration)
          THEN Goto(p, "getMedia_delete", [loc[p] EXCEPT !.response = consumed])
        ELSE IF blob.ok THEN Return(p, blob.val, 264)
        ELSE Throw(p, blob.val.s, 264)
  /\ UNCHANGED <<now, localStorage, sessionStorage, caches, named, accessCount, everSet>>

\* getMedia: cache.delete resolves (Index.ts:261-262)
GetMediaDelete(p) ==
  /\ pc[p] = "getMedia_delete"
  /\ caches' = [caches EXCEPT ![loc[p].cache] = CacheDelete(@, args[p].url)]
  /\ Return(p, JsNull, 262)
  /\ UNCHANGED <<now, localStorage, sessionStorage, named, accessCount, everSet>>

\* --------------------------------------------------------------- specification
\* Two concurrent callers of the exported instance (Index.ts:269), one call
\* each, on stores that are empty or hold what an earlier page load wrote.
Procs == {1, 2}

\* the keys and urls the callers use
Ids == {1, 2}

\* the payload the callers store
Values == {JsObj("n", 1)}

\* the options objects of set: <<ttl, storageType>>
Options == {<<1, "local">>, <<1, "session">>, <<1, "cache">>, <<1, Unspecified>>,
            <<NoTtl, Unspecified>>}

StorageTypes == Kinds \cup {Unspecified}

MediaUrls == {"img"}

\* what set("1", _, null, {ttl: 1}) and set("2", _, "a") at time 0 leave in a Storage
PersistedStorage ==
  StorageSet(StorageSet(EmptyStorage, 1, JsNull, 1, 0), 2, JsStr("a"), DEFAULT_TTL, 0)

\* what the same two calls leave in the Cache
PersistedCache ==
  CachePut(CachePut(<<>>, 1, JSONstringify(JsNull, 1, 0), NoHeader),
           2, JSONstringify(JsStr("a"), DEFAULT_TTL, 0), NoHeader)

Init ==
  \/ InitWith(Procs, 0, EmptyStorage, EmptyStorage, <<>>)
  \/ InitWith(Procs, 0, PersistedStorage, PersistedStorage, PersistedCache)

\* the steps of the calls in flight
Step(p) ==
  \/ GetCacheOpen(p) \/ GetCacheMatch(p) \/ GetCacheJson(p) \/ GetCacheDelete(p)
  \/ SetCacheOpen(p) \/ SetCachePut(p) \/ SetCacheKeys(p)
  \/ DeleteOpen(p) \/ DeleteDelete(p)
  \/ ClearAllDelete(p)
  \/ \E ok \in BOOLEAN : ConvertImageToBlobFetch(p, ok)
  \/ SetMediaOpen(p) \/ SetMediaPut(p)
  \/ GetMediaOpen(p) \/ GetMediaMatch(p) \/ GetMediaJson(p) \/ GetMediaDelete(p)

Next ==
  \/ Tick(MaxTime)
  \/ \E p \in Procs :
       \/ \E id \in Ids, kind \in StorageTypes : GetCall(p, id, id, kind)
       \/ \E id \in Ids, value \in Values, o \in Options :
             SetCall(p, id, id, value, o[1], o[2])
       \/ \E url \in Ids : DeleteCall(p, url)
       \/ ClearAllCall(p)
       \/ \E url \in Ids, imageUrl \in MediaUrls : SetMediaCall(p, url, imageUrl, NoTtl)
       \/ \E url \in Ids : GetMediaCall(p, url)
       \/ Step(p)

Spec == Init /\ [][Next]_vars

\* ------------------------------------------------------- sequential filling
\* MAX_CACHE_SIZE + ExtraWrites callers write distinct urls to the Cache one
\* after another, each a millisecond after the write before it.
FillProcs == 1 .. (MAX_CACHE_SIZE + ExtraWrites)

FillInit == InitWith(FillProcs, 0, EmptyStorage, EmptyStorage, <<>>)

\* the accessedAt of the entries of the named Cache
AccessTimes == {JSONparse(caches[named][i].body).accessedAt : i \in 1 .. Len(caches[named])}

\* caller p writes url p once the caller before it is done and the clock has
\* passed the accessedAt of every stored entry
FillCall(p) ==
  /\ pc[p] = "idle"
  /\ args[p] = NoArgs
  /\ p = 1 \/ p - 1 \in Completed
  /\ \A t \in AccessTimes : t < now
  /\ SetCall(p, p, p, JsNum(p), NoTtl, "cache")

\* a millisecond passes between two writes
FillTick ==
  /\ \A p \in FillProcs : pc[p] = "idle"
  /\ \E t \in AccessTimes : t >= now
  /\ Tick(LastTime)

FillNext ==
  \/ FillTick
  \/ \E p \in FillProcs :
       \/ FillCall(p)
       \/ SetCacheOpen(p) \/ SetCachePut(p) \/ SetCacheKeys(p)
       \/ ApplyLRUKeys(p) \/ ApplyLRUMatch(p) \/ ApplyLRULoop(p) \/ ApplyLRUDelete(p)

SpecFill == FillInit /\ [][FillNext]_vars

\* ------------------------------------------------------------- eviction races
\* Two concurrent callers on a Cache that holds MAX_CACHE_SIZE entries, written
\* one per millisecond by earlier page loads.  A caller writes a new url,
\* writes the oldest url again, stores a media entry or deletes the oldest url.
FullCache ==
  [i \in 1 .. MAX_CACHE_SIZE |->
     [url |-> i, body |-> JSONstringify(JsNum(i), DEFAULT_TTL + i - 1, i - 1),
      expires |-> NoHeader]]

\* urls that are not in the full Cache
NewUrls == {MAX_CACHE_SIZE + 1, MAX_CACHE_SIZE + 2}

\* the url of the full Cache that was written first
OldUrl == 1

LruInit == InitWith(Procs, MAX_CACHE_SIZE, EmptyStorage, EmptyStorage, FullCache)

LruNext ==
  \E p \in Procs :
    \/ \E url \in NewUrls \cup {OldUrl} :
          SetCall(p, url, url, JsNum(url), NoTtl, "cache")
    \/ \E imageUrl \in MediaUrls : SetMediaCall(p, MAX_CACHE_SIZE + 2, imageUrl, NoTtl)
    \/ DeleteCall(p, OldUrl)
    \/ DeleteOpen(p) \/ DeleteDelete(p)
    \/ SetCacheOpen(p) \/ SetCachePut(p) \/ SetCacheKeys(p)
    \/ ApplyLRUKeys(p) \/ ApplyLRUMatch(p) \/ ApplyLRULoop(p) \/ ApplyLRUDelete(p)
    \/ \E ok \in BOOLEAN : ConvertImageToBlobFetch(p, ok)
    \/ SetMediaOpen(p) \/ SetMediaPut(p)

SpecLRU == LruInit /\ [][LruNext]_vars

\* ------------------------------------------------------------- same-url writes
\* Two concurrent callers write the same url of the Cache, each with a payload
\* and a ttl of its own choice, while the clock advances.
RaceUrl == 1

RaceValues == {JsObj("n", 1), JsStr("a")}

RaceTtls == {1, NoTtl}

SameUrlInit ==
  \/ InitWith(Procs, 0, EmptyStorage, EmptyStorage, <<>>)
  \/ InitWith(Procs, 0, EmptyStorage, EmptyStorage, PersistedCache)

SameUrlNext ==
  \/ Tick(MaxTime)
  \/ \E p \in Procs :
       \/ \E value \in RaceValues, ttl \in RaceTtls, kind \in {"cache", Unspecified} :
             SetCall(p, RaceUrl, RaceUrl, value, ttl, kind)
       \/ SetCacheOpen(p) \/ SetCachePut(p) \/ SetCacheKeys(p)

SpecSameUrl == SameUrlInit /\ [][SameUrlNext]_vars

\* --------------------------------------------------------------------- faults
\* The stores hold items that are not envelopes: the Storage objects are
\* shared with the other code of the page, and the Cache holds a media entry.
\* The host may reject caches.delete.
NotJson == <<"undefined">>

\* a Storage whose key 1 holds an envelope and whose key 2 holds other text
MalformedStorage == SetItem(PersistedStorage, 2, NotJson)

\* a Cache whose url 1 holds an envelope and whose url 2 holds what
\* setMedia(2, "img") stored
MalformedCache ==
  CachePut(PersistedCache, 2, BlobBody("img"), ToUTCString(DEFAULT_TTL))

FaultsInit == InitWith(Procs, 0, MalformedStorage, MalformedStorage, MalformedCache)

FaultsNext ==
  \/ Tick(MaxTime)
  \/ \E p \in Procs :
       \/ \E id \in Ids, kind \in StorageTypes : GetCall(p, id, id, kind)
       \/ ClearAllCall(p)
       \/ GetCacheOpen(p) \/ GetCacheMatch(p) \/ GetCacheJson(p) \/ GetCacheDelete(p)
       \/ ClearAllDelete(p) \/ ClearAllDeleteRejects(p)

SpecFaults == FaultsInit /\ [][FaultsNext]_vars

\* ==================================================================== claims
\* the storage type a call addresses, as the contract states it
KindOf(kind) == IF kind = "local" THEN "local"
                ELSE IF kind = "session" THEN "session" ELSE "cache"

\* the ttl of a call, as the contract states it
TtlOf(ttl) == IF ttl = NoTtl THEN 300000 ELSE ttl

\* caller p takes a step of its call
Steps(p) == pc'[p] # pc[p] \/ args'[p] # args[p]

\* the call of caller p completes in this step
Settles(p) == ret[p].status = "none" /\ ret'[p].status # "none"

Absent(r) == r.status = "ok" /\ r.val = JsNull

Gives(r, v) == r.status = "ok" /\ r.val = v

\* the urls of a Cache
UrlsOf(cache) == {cache[i].url : i \in 1 .. Len(cache)}

\* the envelope stored under url in a Cache
EnvelopeAt(cache, url) ==
  JSONparse(cache[CHOOSE i \in 1 .. Len(cache) : cache[i].url = url].body)

\* a get of key on a Storage: unexpired entries are returned and kept, expired
\* ones are removed, a missing key is absent
StorageTtl(before, after, key, r) ==
  IF key \notin DOMAIN before THEN Absent(r) /\ after = before
  ELSE LET e == JSONparse(before[key])
       IN e.ok => /\ now < e.expiration => Gives(r, e.value) /\ after = before
                  /\ now > e.expiration => Absent(r) /\ key \notin DOMAIN after

\* a set on a Storage at time now stores value with expiration now + ttl
StorageWrites(after, a) ==
  /\ a.key \in DOMAIN after
  /\ LET e == JSONparse(after[a.key])
     IN e.ok /\ e.value = a.value /\ e.expiration = now + TtlOf(a.ttl)

C1Step(p) ==
  LET a == args'[p]
      called == args[p] = NoArgs /\ a # NoArgs
  IN /\ called /\ a.op = "set" /\ a.kind = "local" => StorageWrites(localStorage', a)
     /\ called /\ a.op = "set" /\ a.kind = "session" => StorageWrites(sessionStorage', a)
     /\ pc[p] = "setCache_put" /\ Steps(p) =>
          /\ a.url \in UrlsOf(caches'[loc[p].cache])
          /\ LET e == EnvelopeAt(caches'[loc[p].cache], a.url)
             IN e.ok /\ e.value = a.value /\ e.expiration = a.at + TtlOf(a.ttl)
     /\ called /\ a.op = "get" /\ a.kind = "local" =>
          StorageTtl(localStorage, localStorage', a.key, ret'[p])
     /\ called /\ a.op = "get" /\ a.kind = "session" =>
          StorageTtl(sessionStorage, sessionStorage', a.key, ret'[p])
     /\ pc[p] = "getCache_match" /\ Steps(p)
          /\ a.url \notin UrlsOf(caches[loc[p].cache]) => Absent(ret'[p])
     /\ pc[p] = "getCache_json" /\ Steps(p) =>
          LET e == JSONparse(loc[p].response.body)
          IN e.ok => /\ now < e.expiration => Gives(ret'[p], e.value) /\ caches' = caches
                     /\ now > e.expiration => pc'[p] = "getCache_delete"
     /\ pc[p] = "getCache_delete" /\ Steps(p) =>
          Absent(ret'[p]) /\ a.url \notin UrlsOf(caches'[loc[p].cache])

\* C1: in each of the three backends set stores the value with the expiration
\* (time of the call) + ttl; a get that finds the entry before its expiration
\* returns the value and keeps the entry, a get that finds it after its
\* expiration returns absent and removes it, and a get that finds no entry
\* returns absent without an error.
T_C1 == [][\A p \in DOMAIN pc : C1Step(p)]_vars

\* an expired entry was removed from the Cache by one get, and a second get of
\* the same url, made after the first completed, returned absent
W_C1 ==
  \E p, q \in DOMAIN pc :
    /\ args[p].op = "get" /\ ret[p].line = 69 /\ Absent(ret[p])
    /\ args[q].op = "get" /\ ret[q].line = 64 /\ Absent(ret[q])
    /\ args[q].url = args[p].url /\ p \in args[q].after

\* q is a completed set and p a get of the same identifier with the same
\* storage kind, called after the set completed
Follows(p, q, a) ==
  /\ q \in a.after
  /\ args[q].op = "set" /\ ret[q].status = "ok"
  /\ a.op = "get"
  /\ KindOf(a.kind) = KindOf(args[q].kind)
  /\ IF KindOf(a.kind) = "cache" THEN a.url = args[q].url ELSE a.key = args[q].key

\* C2: a get that follows a set of the same key, url and storage kind, with no
\* call in between, and completes before the ttl has elapsed returns the value
\* that was set.
T_C2 ==
  [][\A p, q \in DOMAIN pc :
       Settles(p) /\ Follows(p, q, args'[p]) /\ now < args[q].at + TtlOf(args[q].ttl)
         => Gives(ret'[p], args[q].value)]_vars

\* a get on the Cache returned the object stored by the set before it
W_C2 ==
  \E p, q \in DOMAIN pc :
    /\ Follows(p, q, args[p]) /\ KindOf(args[p].kind) = "cache"
    /\ args[q].value = JsObj("n", 1) /\ Gives(ret[p], JsObj("n", 1))

\* the first n callers of the filling scenario are done, the others have not called
Written(n) ==
  /\ \A p \in 1 .. n : p \in Completed
  /\ \A p \in DOMAIN pc : p > n => args[p] = NoArgs

\* C3: after n > MAX_CACHE_SIZE sequential writes of distinct urls with
\* strictly increasing accessedAt the Cache holds exactly the MAX_CACHE_SIZE
\* entries written last (those with the largest accessedAt); the n -
\* MAX_CACHE_SIZE entries written first are gone.
T_C3 ==
  \A n \in (MAX_CACHE_SIZE + 1) .. (MAX_CACHE_SIZE + ExtraWrites) :
    Written(n) =>
      /\ Len(caches[named]) = MAX_CACHE_SIZE
      /\ UrlsOf(caches[named]) = (n - MAX_CACHE_SIZE + 1) .. n
      /\ \A u \in UrlsOf(caches[named]) :
           /\ EnvelopeAt(caches[named], u).accessedAt = args[u].at
           /\ \A v \in 1 .. (n - MAX_CACHE_SIZE) : args[v].at < args[u].at

\* 51 urls were written and the one written first is absent
W_C3 ==
  /\ Written(MAX_CACHE_SIZE + 1)
  /\ 1 \notin UrlsOf(caches[named])
  /\ Len(caches[named]) = MAX_CACHE_SIZE

\* the awaits of applyLRU
LruPcs == {"applyLRU_keys", "applyLRU_match", "applyLRU_loop", "applyLRU_delete"}

\* C4 (as claimed): whenever an eviction pass ends, also with other set calls
\* interleaved, the Cache it ran on holds at most MAX_CACHE_SIZE entries.
X_C4 ==
  [][\A p \in DOMAIN pc :
       /\ pc[p] \in LruPcs /\ pc'[p] \notin LruPcs
       /\ \A q \in DOMAIN pc : args[q].op \in {"none", "set"}
       => Len(caches'[loc[p].cache]) <= MAX_CACHE_SIZE]_vars

\* C5 (as claimed): when no call is in flight the Cache holds at most
\* MAX_CACHE_SIZE entries.
X_C5 ==
  (\A p \in DOMAIN pc : pc[p] = "idle") => Len(caches[named]) <= MAX_CACHE_SIZE

\* C6 (as claimed): a getMedia that follows a setMedia of the same url returns
\* the blob that setMedia fetched.
X_C6 ==
  \A p, q \in DOMAIN pc :
    /\ args[p].op = "getMedia" /\ ret[p].status # "none"
    /\ q \in args[p].after
    /\ args[q].op = "setMedia" /\ ret[q].status = "ok"
    /\ args[q].url = args[p].url
    => Gives(ret[p], JsBlob(args[q].mediaUrl))

\* C7 (as claimed): a value set with a ttl and no storage kind is returned by a
\* get of the same key and url with storage kind "local" that follows it.
X_C7 ==
  \A p, q \in DOMAIN pc :
    /\ args[p].op = "get" /\ args[p].kind = "local" /\ ret[p].status # "none"
    /\ q \in args[p].after
    /\ args[q].op = "set" /\ args[q].kind = Unspecified /\ args[q].ttl # NoTtl
    /\ ret[q].status = "ok"
    /\ args[q].key = args[p].key /\ args[q].url = args[p].url
    /\ args[p].at < args[q].at + TtlOf(args[q].ttl)
    => Gives(ret[p], args[q].value)

\* C8: when clearAll completes, localStorage, sessionStorage and the Cache
\* under CACHE_NAME are empty, and a get with any storage kind that follows it
\* (the only other call) returns absent.
T_C8 ==
  [][\A p \in DOMAIN pc :
       /\ Settles(p) /\ args[p].op = "clearAll" =>
            /\ localStorage' = EmptyStorage
            /\ sessionStorage' = EmptyStorage
            /\ caches'[named'] = <<>>
       /\ \A q \in DOMAIN pc :
            /\ Settles(p) /\ args'[p].op = "get"
            /\ q \in args'[p].after /\ args[q].op = "clearAll"
            => Absent(ret'[p])]_vars

\* clearAll completed on stores that held entries, and the get after it
\* found its key absent
W_C8 ==
  \E p, q \in DOMAIN pc :
    /\ args[q].op = "clearAll" /\ ret[q].status = "ok"
    /\ args[p].op = "get" /\ q \in args[p].after /\ Absent(ret[p])
    /\ everSet["local"] # {} /\ everSet["session"] # {} /\ everSet["cache"] # {}
    /\ localStorage = EmptyStorage /\ sessionStorage = EmptyStorage
    /\ caches[named] = <<>>

\* the content of the backend of a storage kind
Backend(kind, local, session, cache) ==
  CASE kind = "local" -> local
    [] kind = "session" -> session
    [] kind = "cache" -> cache

\* C9: a step of a set or a get leaves the backends of the two other storage
\* kinds unchanged, and a get of an identifier that was never written with the
\* get's storage kind returns absent, whatever the other backends hold under it.
T_C9 ==
  [][\A p \in DOMAIN pc :
       LET a == args'[p]
           id == IF KindOf(a.kind) = "cache" THEN a.url ELSE a.key
       IN /\ Steps(p) /\ a.op \in {"get", "set"} =>
               \A k \in Kinds \ {KindOf(a.kind)} :
                 Backend(k, localStorage', sessionStorage', caches')
                   = Backend(k, localStorage, sessionStorage, caches)
          /\ Settles(p) /\ a.op = "get" /\ id \notin everSet[KindOf(a.kind)]
               => Absent(ret'[p])]_vars

\* a get with storage kind "session" found a key absent that was never set
\* there, while localStorage holds an entry under the same key
W_C9 ==
  \E p \in DOMAIN pc :
    /\ args[p].op = "get" /\ args[p].kind = "session" /\ Absent(ret[p])
    /\ args[p].key \notin everSet["session"]
    /\ args[p].key \in DOMAIN localStorage

\* C10: when delete(url) completes it has not failed, the Cache holds no entry
\* under url and every other entry as before, and localStorage and
\* sessionStorage are unchanged.
T_C10 ==
  [][\A p \in DOMAIN pc :
       Settles(p) /\ args[p].op = "delete" =>
         LET before == caches[loc[p].cache]
             after == caches'[loc[p].cache]
         IN /\ ret'[p].status = "ok"
            /\ args[p].url \notin UrlsOf(after)
            /\ after = SelectSeq(before, LAMBDA e : e.url # args[p].url)
            /\ \A g \in Generations \ {loc[p].cache} : caches'[g] = caches[g]
            /\ localStorage' = localStorage
            /\ sessionStorage' = sessionStorage]_vars

\* delete removed one of two Cache entries; the other one is left, and so are
\* the entries under the same identifier in localStorage and sessionStorage
W_C10 ==
  \E p \in DOMAIN pc :
    /\ args[p].op = "delete" /\ ret[p].status = "ok"
    /\ args[p].url \in everSet["cache"]
    /\ args[p].url \notin UrlsOf(caches[named])
    /\ Len(caches[named]) = 1
    /\ args[p].url \in DOMAIN localStorage
    /\ args[p].url \in DOMAIN sessionStorage

\* the entries of a Cache stored under url
EntriesAt(cache, url) == {i \in 1 .. Len(cache) : cache[i].url = url}

\* the envelope in the Cache is the one the set call of caller w built
EnvelopeOf(cache, w) ==
  /\ Cardinality(EntriesAt(cache, args[w].url)) = 1
  /\ LET e == EnvelopeAt(cache, args[w].url)
     IN /\ e.ok
        /\ e.value = args[w].value
        /\ e.expiration = args[w].at + TtlOf(args[w].ttl)
        /\ e.accessedAt >= args[w].at

\* C11: of two concurrent set calls on the same url of the Cache, the store
\* write (cache.put) of each call leaves under the url exactly the envelope of
\* that call, whole, and no other step of either call changes the Cache; so
\* when both have completed the url holds one entry, the envelope of the call
\* whose put completed last, whichever call was made first.
T_C11 ==
  [][/\ \A p \in DOMAIN pc :
          args[p].op = "set" /\ Steps(p) =>
            IF pc[p] = "setCache_put"
            THEN /\ EnvelopeOf(caches'[loc[p].cache], p)
                 /\ CacheMatch(caches'[loc[p].cache], args[p].url).body = loc[p].body
                 /\ JSONparse(loc[p].body).accessedAt <= now
            ELSE caches' = caches
     /\ (\A p \in DOMAIN pc : args'[p].op = "set" /\ ret'[p].status = "ok") =>
          \E w \in DOMAIN pc : EnvelopeOf(caches'[named'], w)]_vars

\* both calls completed and the url holds the envelope of the call that was
\* made first: its put completed after the put of the call made later
W_C11 ==
  \E p, q \in DOMAIN pc :
    /\ p # q /\ {p, q} \subseteq Completed
    /\ args[p].op = "set" /\ args[q].op = "set" /\ args[p].url = args[q].url
    /\ args[q].at < args[p].at
    /\ args[q].value # args[p].value
    /\ args[q].at + TtlOf(args[q].ttl) # args[p].at + TtlOf(args[p].ttl)
    /\ EnvelopeOf(caches[named], q)

\* the text is stored but is not the JSON text of an envelope
Malformed(text) == text # NoItem /\ ~JSONparse(text).ok

Stores == <<localStorage, sessionStorage, caches>>

\* C12: a get whose key (localStorage, sessionStorage) or url (Cache) holds data
\* that cannot be deserialized as an envelope fails with an error, and a get
\* that fails leaves localStorage, sessionStorage and the Cache unchanged: the
\* malformed entry is not deleted.
T_C12 ==
  [][\A p \in DOMAIN pc :
       LET a == args'[p]
           called == args[p] = NoArgs /\ a # NoArgs
       IN /\ called /\ a.op = "get" /\ a.kind = "local"
               /\ Malformed(GetItem(localStorage, a.key))
               => ret'[p].status = "error" /\ Stores' = Stores
          /\ called /\ a.op = "get" /\ a.kind = "session"
               /\ Malformed(GetItem(sessionStorage, a.key))
               => ret'[p].status = "error" /\ Stores' = Stores
          /\ a.op = "get" /\ pc[p] = "getCache_match" /\ Steps(p)
               /\ Malformed(CacheMatch(caches[loc[p].cache], a.url).body)
               => pc'[p] = "getCache_json" /\ Stores' = Stores
          /\ a.op = "get" /\ pc[p] = "getCache_json" /\ Steps(p)
               /\ Malformed(loc[p].response.body)
               => ret'[p].status = "error" /\ Stores' = Stores
          /\ a.op = "get" /\ Steps(p) /\ ret'[p].status = "error"
               => Stores' = Stores]_vars

\* a get on localStorage and a get on the Cache both failed with SyntaxError,
\* and the data they could not parse is still stored
W_C12 ==
  \E p, q \in DOMAIN pc :
    /\ args[p].op = "get" /\ args[p].kind = "local"
    /\ ret[p] = Failed("SyntaxError", 31)
    /\ GetItem(localStorage, args[p].key) = NotJson
    /\ args[q].op = "get" /\ args[q].kind = "cache"
    /\ ret[q] = Failed("SyntaxError", 66)
    /\ CacheMatch(caches[named], args[q].url).body = BlobBody("img")

\* the envelope, read at time now, is not expired
Unexpired(text) == JSONparse(text).ok /\ now <= JSONparse(text).expiration

OnlyCalls(ops) == \A q \in DOMAIN pc : args[q].op \in ops \cup {"none"}

\* C14 (as claimed): an eviction pass never ends with an error when the other
\* caller's delete or eviction pass removes an entry the pass enumerated, and
\* the set that triggered the pass does not fail.
X_C14 ==
  [][\A p \in DOMAIN pc :
       /\ pc[p] \in LruPcs /\ pc'[p] = "idle"
       /\ OnlyCalls({"set", "delete"})
       => ret'[p].status = "ok"]_vars

\* the entries of a Cache stored under the other urls, in order
Others(cache, url) == SelectSeq(cache, LAMBDA e : e.url # url)

\* C15: the write of a set on the Cache keeps every entry stored under another
\* url; a set whose count of the keys after its write finds at most
\* MAX_CACHE_SIZE entries completes without removing an entry; eviction is
\* started, and a key is taken for deletion, only on a count strictly greater
\* than MAX_CACHE_SIZE.
T_C15 ==
  [][\A p \in DOMAIN pc :
       args[p].op = "set" /\ Steps(p) =>
         LET before == caches[loc[p].cache]
             after == caches'[loc[p].cache]
         IN /\ pc[p] = "setCache_open" => caches' = caches
            /\ pc[p] = "setCache_put" =>
                 Others(after, args[p].url) = Others(before, args[p].url)
            /\ pc[p] = "setCache_keys" /\ Len(before) <= MAX_CACHE_SIZE =>
                 ret'[p] = Ok(JsUndefined, 170) /\ caches' = caches
            /\ pc'[p] = "applyLRU_keys" => Len(before) > MAX_CACHE_SIZE
            /\ pc'[p] = "applyLRU_delete" => Len(before) > MAX_CACHE_SIZE]_vars

\* the only call made wrote the oldest url of the full Cache again: the Cache
\* holds the same MAX_CACHE_SIZE urls, the oldest one with its new envelope
W_C15 ==
  \E p \in DOMAIN pc :
    /\ args[p].op = "set" /\ args[p].url = OldUrl /\ ret[p].status = "ok"
    /\ \A q \in DOMAIN pc \ {p} : args[q] = NoArgs
    /\ UrlsOf(caches[named]) = 1 .. MAX_CACHE_SIZE
    /\ Len(caches[named]) = MAX_CACHE_SIZE
    /\ EnvelopeAt(caches[named], OldUrl).accessedAt = args[p].at
    /\ Others(caches[named], OldUrl) = Others(FullCache, OldUrl)

\* C16 (as claimed): when the deletion of the Cache fails during clearAll, the
\* clears that come after it are still made: localStorage and sessionStorage
\* are empty when the call ends.
X_C16 ==
  [][\A p \in DOMAIN pc :
       Settles(p) /\ args[p].op = "clearAll" /\ ret'[p].status = "error"
         => localStorage' = EmptyStorage /\ sessionStorage' = EmptyStorage]_vars

\* C17 (as claimed): a set on a Cache that holds an entry written by setMedia
\* completes without error and leaves at most MAX_CACHE_SIZE entries.
X_C17 ==
  [][\A p, q \in DOMAIN pc :
       /\ Settles(p) /\ args[p].op = "set"
       /\ args[q].op = "setMedia" /\ q \in args[p].after /\ ret[q].status = "ok"
       => /\ ret'[p].status = "ok"
          /\ Len(caches'[named']) <= MAX_CACHE_SIZE]_vars

\* C18 (as claimed): the cache.delete of a get never removes an envelope whose
\* expiration lies in the future: such an envelope is still stored under the
\* url after the step.
X_C18 ==
  [][\A p \in DOMAIN pc :
       /\ pc[p] = "getCache_delete" /\ Steps(p)
       /\ args[p].url \in UrlsOf(caches[loc[p].cache])
       /\ EnvelopeAt(caches[loc[p].cache], args[p].url).ok
       /\ now < EnvelopeAt(caches[loc[p].cache], args[p].url).expiration
       => args[p].url \in UrlsOf(caches'[loc[p].cache])]_vars

\* C19 (as claimed): whenever an eviction pass deletes an entry, the accessedAt
\* the entry has in the Cache at that moment is no greater than the accessedAt
\* of any entry that remains.
X_C19 ==
  [][\A p \in DOMAIN pc :
       /\ pc[p] = "applyLRU_delete" /\ Steps(p)
       /\ OnlyCalls({"set"})
       /\ loc[p].oldestEntry \in UrlsOf(caches[loc[p].cache])
       => \A u \in UrlsOf(caches'[loc[p].cache]) :
            EnvelopeAt(caches[loc[p].cache], loc[p].oldestEntry).accessedAt
              <= EnvelopeAt(caches'[loc[p].cache], u).accessedAt]_vars

\* C20 (as claimed): no cache.delete of an eviction pass lowers the count of a
\* Cache that holds at most MAX_CACHE_SIZE entries.
X_C20 ==
  [][\A p \in DOMAIN pc :
       /\ pc[p] = "applyLRU_delete" /\ Steps(p)
       /\ OnlyCalls({"set"})
       /\ Len(caches[loc[p].cache]) <= MAX_CACHE_SIZE
       => Len(caches'[loc[p].cache]) = Len(caches[loc[p].cache])]_vars

TypeOK == /\ now \in 0 .. LastTime
          /\ named \in Generations
          /\ \A p \in DOMAIN pc : ret[p].status \in {"none", "ok", "error"}
====
